---- MODULE Spec2Model ----
(***************************************************************************)
(* Model of pptx_converter_app.py: the upload validator                    *)
(* (validate_file_basic), the bounded text extractor                       *)
(* (safe_text_extraction) and the Streamlit script that chains them.       *)
(*                                                                         *)
(* Strings the code inspects character by character (file names, exception *)
(* messages, shape text) are sequences of one-character strings.  Strings  *)
(* the code only produces or compares whole (rejection reasons, zip entry  *)
(* names) are TLA+ strings.                                                *)
(***************************************************************************)
EXTENDS Integers, Sequences, FiniteSets, TLC

VARIABLES
    uploaded_file,    \* the UploadedFile the script sees, or NoFile
    security_errors,  \* list returned by the last validate_file_basic call
    extraction,       \* (text, slide_count, error) of the last extraction
    extracted_from,   \* the blob the last safe_text_extraction call was given
    env,              \* what the operating system did during the last extraction
    tempfiles,        \* temporary files present on disk
    created,          \* temporary files created by the last extraction
    ncalls,           \* number of NamedTemporaryFile names handed out so far
    view,             \* what the page shows below the uploader
    download_name,    \* file_name of the "Download as TXT" button, when shown
    summary_offered,  \* whether the "Download Summary" button is shown
    pc                \* position of a direct function call: "start" / "returned"

vars == <<uploaded_file, security_errors, extraction, extracted_from, env,
          tempfiles, created, ncalls, view, download_name, summary_offered, pc>>

-----------------------------------------------------------------------------
(* Bounds of the model *)

MaxNameParts == 3     \* a file name is 1..MaxNameParts pieces of NamePieces
MaxMsgParts == 2      \* an exception message is 0..MaxMsgParts pieces
SlideOvershoot == 1   \* documents have up to MAX_SLIDES + SlideOvershoot slides
ShapeOvershoot == 1   \* slides have up to MAX_SHAPES_PER_SLIDE + ShapeOvershoot shapes
MaxCalls == 1         \* extractions per server life in the pipeline model

-----------------------------------------------------------------------------
(* Generic helpers *)

Min(a, b) == IF a < b THEN a ELSE b

RECURSIVE Flatten(_)
Flatten(ss) == IF ss = <<>> THEN <<>> ELSE Head(ss) \o Flatten(Tail(ss))

SeqsUpTo(S, lo, hi) == UNION {[1..k -> S] : k \in lo..hi}

Rep(c, k) == [i \in 1..k |-> c]

\* s[a:b] of Python, 0-based half-open, clamped
Slice(s, a, b) == SubSeq(s, a + 1, Min(b, Len(s)))

\* sub in s
Contains(s, sub) ==
    \E i \in 0..(Len(s) - Len(sub)) : Slice(s, i, i + Len(sub)) = sub

\* s.rfind(c) for a one-character c: 0-based index of the last occurrence, or -1
RFind(s, c) ==
    LET hits == {i \in 1..Len(s) : s[i] = c}
    IN  IF hits = {} THEN -1
        ELSE (CHOOSE i \in hits : \A j \in hits : j <= i) - 1

\* str.lower() on the characters the model uses
LowerChar(c) ==
    CASE c = "P" -> "p"
      [] c = "T" -> "t"
      [] c = "X" -> "x"
      [] c = "E" -> "e"
      [] c = "M" -> "m"
      [] OTHER -> c

Lower(s) == [i \in DOMAIN s |-> LowerChar(s[i])]

-----------------------------------------------------------------------------
(* Security configuration *)

MAX_FILE_SIZE == 50 * 1024 * 1024
ALLOWED_EXTENSIONS == {<<".", "p", "p", "t", "x">>}
MIN_FILE_SIZE == 1000

-----------------------------------------------------------------------------
(* validate_file_basic *)

\* os.path.splitext(p)[1] (posixpath: sep "/", extsep ".")
RECURSIVE SplitextScan(_, _, _)
SplitextScan(p, filenameIndex, dotIndex) ==
    IF filenameIndex < dotIndex
    THEN IF Slice(p, filenameIndex, filenameIndex + 1) # <<".">>
         THEN Slice(p, dotIndex, Len(p))
         ELSE SplitextScan(p, filenameIndex + 1, dotIndex)
    ELSE <<>>

SplitextExt(p) ==
    LET sepIndex == RFind(p, "/")
        dotIndex == RFind(p, ".")
    IN  IF dotIndex > sepIndex
        THEN SplitextScan(p, sepIndex + 1, dotIndex)
        ELSE <<>>

ErrTooLarge == "File too large. Maximum size: 50MB"
ErrExtension == "Invalid file type. Only .pptx files allowed"
ErrNotPptx == "File doesn't appear to be a valid PPTX format"
ErrCorrupted == "File is corrupted or not a valid PPTX file"
ErrUnable == "Unable to validate file structure"
ErrFilename == "Invalid characters in filename"
ErrTooSmall == "File is too small to be a valid PPTX"

\* 1. File size check
SizeCheck(errors, f) ==
    IF f.size > MAX_FILE_SIZE THEN Append(errors, ErrTooLarge) ELSE errors

\* 2. File extension check
ExtensionCheck(errors, f) ==
    LET file_extension == Lower(SplitextExt(f.name))
    IN  IF file_extension \notin ALLOWED_EXTENSIONS
        THEN Append(errors, ErrExtension)
        ELSE errors

required_files == <<"[Content_Types].xml", "ppt/presentation.xml">>

\* the for loop over required_files, with its break
RECURSIVE RequiredLoop(_, _, _)
RequiredLoop(errors, i, zip_contents) ==
    IF i > Len(required_files) THEN errors
    ELSE IF required_files[i] \notin zip_contents
         THEN Append(errors, ErrNotPptx)
         ELSE RequiredLoop(errors, i + 1, zip_contents)

\* 3. Basic PPTX structure validation.  f.bytes.zip says what the try block
\* meets: "ok" (the archive opens, namelist() = f.bytes.entries), "bad"
\* (zipfile raises BadZipFile) or "error" (getvalue or zipfile raises
\* another Exception).  StructureTry is the try block: exc is the exception
\* that leaves it, or "none".
StructureTry(errors, f) ==
    CASE f.bytes.zip = "bad" -> [exc |-> "BadZipFile", errors |-> errors]
      [] f.bytes.zip = "error" -> [exc |-> "Exception", errors |-> errors]
      [] OTHER -> [exc |-> "none",
                   errors |-> RequiredLoop(errors, 1, f.bytes.entries)]

\* the except clauses, applied to the outcome t of the try block: exc is
\* the exception that escapes them
\* (variant without the "except Exception" clause)
StructureHandlersMut(t) ==
    CASE t.exc = "BadZipFile" ->
            [exc |-> "none", errors |-> Append(t.errors, ErrCorrupted)]
      [] OTHER -> t

StructureHandlers(t) ==
    CASE t.exc = "BadZipFile" ->
            [exc |-> "none", errors |-> Append(t.errors, ErrCorrupted)]
      [] t.exc = "Exception" ->
            [exc |-> "none", errors |-> Append(t.errors, ErrUnable)]
      [] OTHER -> t

StructureCheck(errors, f) == StructureHandlers(StructureTry(errors, f))

dangerous_chars ==
    {<<"/">>, <<"\\">>, <<".", ".">>, <<"<">>, <<">">>, <<"|">>, <<":">>,
     <<"*">>, <<"?">>, <<"\"">>}

\* 4. File name sanitization
\* (variant that skips the check once a reason is recorded)
FilenameCheckMut(errors, f) ==
    IF errors # <<>> THEN errors
    ELSE IF \E char \in dangerous_chars : Contains(f.name, char)
         THEN Append(errors, ErrFilename)
         ELSE errors

FilenameCheck(errors, f) ==
    IF \E char \in dangerous_chars : Contains(f.name, char)
    THEN Append(errors, ErrFilename)
    ELSE errors

\* 5. Minimum file size check
MinSizeCheck(errors, f) ==
    IF f.size < MIN_FILE_SIZE THEN Append(errors, ErrTooSmall) ELSE errors

\* The function: exc = "none" and errors is the returned list, or exc is
\* the exception that leaves the function.
\* checks 4 and 5 and the return, after the outcome s of check 3
ValidateTail(s, f) ==
    IF s.exc # "none" THEN [exc |-> s.exc, errors |-> <<>>]
    ELSE [exc |-> "none",
          errors |-> MinSizeCheck(FilenameCheck(s.errors, f), f)]

validate_file_basic(f) ==
    ValidateTail(StructureCheck(ExtensionCheck(SizeCheck(<<>>, f), f), f), f)

-----------------------------------------------------------------------------
(* safe_text_extraction *)

MAX_SLIDES == 200
MAX_TEXT_PER_SLIDE == 50000
MAX_SHAPES_PER_SLIDE == 100
ERROR_MSG_LIMIT == 100

\* Characters of shape text: "a" stands for any printable non-space
\* character, BEL for a control character (neither printable nor space).
BEL == "^G"
IsSpace(c) == c \in {" ", "\t", "\n"}
IsPrintable(c) == c \notin {"\t", "\n", BEL}

\* str.strip()
RECURSIVE LStrip(_)
LStrip(s) ==
    IF s # <<>> /\ IsSpace(Head(s)) THEN LStrip(Tail(s)) ELSE s

RECURSIVE RStrip(_)
RStrip(s) ==
    IF s # <<>> /\ IsSpace(s[Len(s)]) THEN RStrip(SubSeq(s, 1, Len(s) - 1)) ELSE s

Strip(s) == RStrip(LStrip(s))

\* ''.join(char for char in text_content if char.isprintable() or char.isspace())
Sanitize(s) == SelectSeq(s, LAMBDA c : IsPrintable(c) \/ IsSpace(c))

\* Pieces of the produced text.  The text is a sequence of strings: single
\* characters, and the literals the code emits as units.
NL == "\n"
SlidesMarker == "!! Processing stopped at 200 slides for performance"
ShapesMarker == "!! Too many shapes in slide, some content skipped"
SlideHeader(n) == <<NL, "--- Slide ", ToString(n), " ---", NL>>

\* sep.join(parts), computed on the index range lo..hi of parts
RECURSIVE JoinRange(_, _, _, _)
JoinRange(parts, sep, lo, hi) ==
    IF lo > hi THEN <<>>
    ELSE IF lo = hi THEN parts[lo]
    ELSE LET mid == (lo + hi) \div 2
         IN  JoinRange(parts, sep, lo, mid) \o sep
                 \o JoinRange(parts, sep, mid + 1, hi)

Join(parts, sep) == JoinRange(parts, sep, 1, Len(parts))

\* Outcome of a block that may raise
Returned(v) == [raised |-> FALSE, msg |-> <<>>, value |-> v]
Raised(m) == [raised |-> TRUE, msg |-> m, value |-> <<>>]

NoError == [none |-> TRUE, msg |-> <<>>]
ErrorStr(m) == [none |-> FALSE, msg |-> m]
\* Python truthiness of the third component
Truthy(error) == ~error.none /\ error.msg # <<>>

\* The loops below are the code's two for loops.  A loop's variables are a
\* record st; st.status is "run" while the loop goes on, "break" after a
\* break and "raised" after an exception (st.msg is its message).  XStep is
\* one pass through the loop body, XLoop runs the passes for the items
\* lo..hi in order, stopping at the first break or exception.

\* Body of: for shape in slide.shapes.  A shape is
\*   [kind |-> "picture"]  no text attribute
\*   [kind |-> "text"]     text attribute .text
\*   [kind |-> "broken"]   reading .text raises Exception(.msg)
\* (variant with the cap test off by one: >= for >)
ShapeStepMut(shape, st) ==
    LET count == st.shape_count + 1
    IN  IF count >= MAX_SHAPES_PER_SLIDE
        THEN [st EXCEPT !.shape_count = count,
                        !.slide_text = @ \o <<ShapesMarker, NL>>,
                        !.status = "break"]
        ELSE IF shape.kind = "broken"
        THEN [st EXCEPT !.shape_count = count,
                        !.status = "raised", !.msg = shape.msg]
        ELSE IF shape.kind = "text" /\ Strip(shape.text) # <<>>
        THEN LET text_content == Slice(shape.text, 0, MAX_TEXT_PER_SLIDE)
                 sanitized_text == Sanitize(text_content)
             IN  [st EXCEPT !.shape_count = count,
                            !.slide_text = @ \o sanitized_text \o <<NL>>]
        ELSE [st EXCEPT !.shape_count = count]

ShapeStep(shape, st) ==
    LET count == st.shape_count + 1
    IN  IF count > MAX_SHAPES_PER_SLIDE
        THEN [st EXCEPT !.shape_count = count,
                        !.slide_text = @ \o <<ShapesMarker, NL>>,
                        !.status = "break"]
        ELSE IF shape.kind = "broken"
        THEN [st EXCEPT !.shape_count = count,
                        !.status = "raised", !.msg = shape.msg]
        ELSE IF shape.kind = "text" /\ Strip(shape.text) # <<>>
        THEN LET text_content == Slice(shape.text, 0, MAX_TEXT_PER_SLIDE)
                 sanitized_text == Sanitize(text_content)
             IN  [st EXCEPT !.shape_count = count,
                            !.slide_text = @ \o sanitized_text \o <<NL>>]
        ELSE [st EXCEPT !.shape_count = count]

RECURSIVE ShapeLoop(_, _, _, _)
ShapeLoop(shapes, lo, hi, st) ==
    IF st.status # "run" \/ lo > hi THEN st
    ELSE IF lo = hi THEN ShapeStep(shapes[lo], st)
    ELSE LET mid == (lo + hi) \div 2
         IN  ShapeLoop(shapes, mid + 1, hi, ShapeLoop(shapes, lo, mid, st))

\* extracted_text.append(slide_text), or the exception of the inner loop
\* passing through; inner is the inner loop's final state
AfterShapes(st, inner) ==
    IF inner.status = "raised"
    THEN [st EXCEPT !.slide_count = @ + 1,
                    !.status = "raised", !.msg = inner.msg]
    ELSE [st EXCEPT !.i = @ + 1, !.slide_count = @ + 1,
                    !.extracted_text = Append(@, inner.slide_text)]

\* slide_count += 1 ... extracted_text.append(slide_text), for one slide
ProcessSlide(slide, st) ==
    AfterShapes(st,
        ShapeLoop(slide, 1, Len(slide),
            [shape_count |-> 0, slide_text |-> SlideHeader(st.slide_count + 1),
             status |-> "run", msg |-> <<>>]))

\* Body of: for i, slide in enumerate(ppt.slides)
\* (variant with the cap test off by one: > for >=)
SlideStepMut(slide, st) ==
    IF st.i > MAX_SLIDES
    THEN [st EXCEPT !.extracted_text = Append(@, <<NL, SlidesMarker, NL>>),
                    !.status = "break"]
    ELSE ProcessSlide(slide, st)

SlideStep(slide, st) ==
    IF st.i >= MAX_SLIDES
    THEN [st EXCEPT !.extracted_text = Append(@, <<NL, SlidesMarker, NL>>),
                    !.status = "break"]
    ELSE ProcessSlide(slide, st)

RECURSIVE SlideLoop(_, _, _, _)
SlideLoop(slides, lo, hi, st) ==
    IF st.status # "run" \/ lo > hi THEN st
    ELSE IF lo = hi THEN SlideStep(slides[lo], st)
    ELSE LET mid == (lo + hi) \div 2
         IN  SlideLoop(slides, mid + 1, hi, SlideLoop(slides, lo, mid, st))

\* return "\n".join(extracted_text), slide_count, None -- or the exception
\* of the loop passing through; st is the outer loop's final state
\* (variant that returns what was accumulated although the loop raised)
WalkReturnMut(st) ==
    Returned([text |-> Join(st.extracted_text, <<NL>>),
              slide_count |-> st.slide_count,
              error |-> NoError])

WalkReturn(st) ==
    IF st.status = "raised" THEN Raised(st.msg)
    ELSE Returned([text |-> Join(st.extracted_text, <<NL>>),
                   slide_count |-> st.slide_count,
                   error |-> NoError])

\* extracted_text = [] onwards, to the return statement of the try block
WalkSlides(slides) ==
    WalkReturn(
        SlideLoop(slides, 1, Len(slides),
            [i |-> 0, slide_count |-> 0, extracted_text |-> <<>>,
             status |-> "run", msg |-> <<>>]))

ErrorPrefix == <<"E", "r", "r", "o", "r", ":", " ">>
SecurityError ==
    <<"E", "r", "r", "o", "r", ":", " ", "F", "i", "l", "e", " ", "p", "r",
      "o", "c", "e", "s", "s", "i", "n", "g", " ", "f", "a", "i", "l", "e",
      "d", " ", "d", "u", "e", " ", "t", "o", " ", "s", "e", "c", "u", "r",
      "i", "t", "y", " ", "r", "e", "s", "t", "r", "i", "c", "t", "i", "o",
      "n", "s">>
Temp == <<"t", "e", "m", "p">>

\* except Exception as e: ...
\* (variant that does not test for "/")
ExceptHandlerMut(error_msg) ==
    IF Contains(Lower(error_msg), Temp) \/ Contains(error_msg, <<"\\">>)
    THEN [text |-> <<>>, slide_count |-> 0, error |-> ErrorStr(SecurityError)]
    ELSE [text |-> <<>>, slide_count |-> 0,
          error |-> ErrorStr(ErrorPrefix \o Slice(error_msg, 0, ERROR_MSG_LIMIT))]

ExceptHandler(error_msg) ==
    IF Contains(Lower(error_msg), Temp) \/ Contains(error_msg, <<"/">>)
       \/ Contains(error_msg, <<"\\">>)
    THEN [text |-> <<>>, slide_count |-> 0, error |-> ErrorStr(SecurityError)]
    ELSE [text |-> <<>>, slide_count |-> 0,
          error |-> ErrorStr(ErrorPrefix \o Slice(error_msg, 0, ERROR_MSG_LIMIT))]

\* The try block.  e says what the operating system does:
\*   e.fail = "create"  NamedTemporaryFile raises Exception(e.msg)
\*   e.fail = "write"   getvalue/write raises Exception(e.msg), file exists
\*   e.fail = "none"    the bytes are written
\* f.bytes.parse says what Presentation() makes of the bytes.
\* Yields the outcome, the disk, the files this call created, and
\* temp_file_path (0 is None).
TryBody(f, e, disk, fresh) ==
    IF e.fail = "create"
    THEN [out |-> Raised(e.msg), disk |-> disk, created |-> {},
          temp_file_path |-> 0]
    ELSE IF e.fail = "write"
    THEN [out |-> Raised(e.msg), disk |-> disk \cup {fresh},
          created |-> {fresh}, temp_file_path |-> 0]
    ELSE IF ~f.bytes.parse.ok
    THEN [out |-> Raised(f.bytes.parse.msg), disk |-> disk \cup {fresh},
          created |-> {fresh}, temp_file_path |-> fresh]
    ELSE [out |-> WalkSlides(f.bytes.parse.slides),
          disk |-> disk \cup {fresh}, created |-> {fresh},
          temp_file_path |-> fresh]

\* finally: ...
Finally(temp_file_path, disk, e) ==
    IF temp_file_path # 0 /\ temp_file_path \in disk
    THEN IF e.unlink_fails THEN disk ELSE disk \ {temp_file_path}
    ELSE disk

\* the try statement around its body's outcome: handler, then finally
TryStatement(body, e) ==
    [result |-> IF body.out.raised THEN ExceptHandler(body.out.msg)
                ELSE body.out.value,
     created |-> body.created,
     disk |-> Finally(body.temp_file_path, body.disk, e)]

\* Yields the returned triple, the files the call created and the disk
\* after the call.
safe_text_extraction(f, e, disk, fresh) ==
    TryStatement(TryBody(f, e, disk, fresh), e)

-----------------------------------------------------------------------------
(* The Streamlit script: upload handling and result rendering *)

DotPptx == <<".", "p", "p", "t", "x">>

\* s.replace(old, ''): every non-overlapping occurrence, left to right
RECURSIVE RemoveAll(_, _)
RemoveAll(s, old) ==
    IF s = <<>> THEN <<>>
    ELSE IF Len(s) >= Len(old) /\ SubSeq(s, 1, Len(old)) = old
    THEN RemoveAll(SubSeq(s, Len(old) + 1, Len(s)), old)
    ELSE <<Head(s)>> \o RemoveAll(Tail(s), old)

\* f"extracted_{uploaded_file.name.replace('.pptx', '')}.txt"
DownloadName(name) ==
    <<"e", "x", "t", "r", "a", "c", "t", "e", "d", "_">>
        \o RemoveAll(name, DotPptx) \o <<".", "t", "x", "t">>

\* len(extracted_text): the pieces of the text are strings
RECURSIVE CharCount(_)
CharCount(text) ==
    IF text = <<>> THEN 0 ELSE Len(Head(text)) + CharCount(Tail(text))

SUMMARY_THRESHOLD == 1000

\* if security_errors: ... else: ... (extraction is allowed)
\* (variant that ignores the list)
PassedValidationMut(errors) == TRUE

PassedValidation(errors) == errors = <<>>

\* if error: ... elif slide_count > 0: ... else: ...
RenderResult(result) ==
    IF Truthy(result.error) THEN "error"
    ELSE IF result.slide_count > 0 THEN "success"
    ELSE "no_text"

NoEnv == [fail |-> "none", msg |-> <<>>, unlink_fails |-> FALSE]

\* A run that does not reach the extraction call: its locals extracted_text,
\* slide_count and error do not exist, and the disk is left alone.
NoExtraction ==
    /\ extraction' = <<>>
    /\ extracted_from' = <<>>
    /\ env' = NoEnv
    /\ created' = {}
    /\ download_name' = <<>>
    /\ summary_offered' = FALSE
    /\ UNCHANGED <<tempfiles, ncalls>>

\* One run of the script from "if uploaded_file is not None" to the end of
\* result rendering.  file is <<>> (None) or <<f>>; clicked is what
\* st.button returns in this run; e is the operating system's behaviour if
\* the run reaches extraction.  An exception leaving validate_file_basic
\* ends the run with Streamlit's traceback ("crashed").
ShowExtraction(f, e, r) ==
    /\ extraction' = <<r.result>>
    /\ extracted_from' = <<f>>
    /\ env' = e
    /\ tempfiles' = r.disk
    /\ created' = r.created
    /\ ncalls' = ncalls + 1
    /\ view' = RenderResult(r.result)
    /\ download_name' =
         IF RenderResult(r.result) = "success"
         THEN DownloadName(f.name) ELSE <<>>
    /\ summary_offered' =
         (RenderResult(r.result) = "success"
          /\ CharCount(r.result.text) > SUMMARY_THRESHOLD)

AfterValidation(f, clicked, e, v) ==
    /\ security_errors' = v.errors
    /\ IF v.exc # "none"
       THEN /\ view' = "crashed"
            /\ NoExtraction
       ELSE IF ~PassedValidation(v.errors)
       THEN /\ view' = "rejected"
            /\ NoExtraction
       ELSE IF ~clicked
       THEN /\ view' = "ready"
            /\ NoExtraction
       ELSE ShowExtraction(f, e,
                safe_text_extraction(f, e, tempfiles, ncalls + 1))

ScriptRun(file, clicked, e) ==
    /\ uploaded_file' = file
    /\ pc' = pc
    /\ IF file = <<>>
       THEN /\ security_errors' = <<>>
            /\ view' = "none"
            /\ NoExtraction
       ELSE AfterValidation(file[1], clicked, e, validate_file_basic(file[1]))

-----------------------------------------------------------------------------
(* Inputs *)

\* File names: 1..MaxNameParts pieces, concatenated
DotPPTX == <<".", "P", "P", "T", "X">>
NamePieces == {<<"a">>, DotPptx, DotPPTX, <<".">>, <<"/">>, <<"<">>}
Names == {Flatten(ps) : ps \in SeqsUpTo(NamePieces, 1, MaxNameParts)}

\* Exception messages: 0..MaxMsgParts pieces, concatenated
Filler == Rep("x", 60)
MsgPieces ==
    {<<"e">>, Temp, <<"T", "e", "m", "p">>, <<"/">>, <<"\\">>, Filler}
Messages == {Flatten(ps) : ps \in SeqsUpTo(MsgPieces, 0, MaxMsgParts)}

\* Shapes
Picture == [kind |-> "picture", text |-> <<>>, msg |-> <<>>]
TextShape(t) == [kind |-> "text", text |-> t, msg |-> <<>>]
Broken(m) == [kind |-> "broken", text |-> <<>>, msg |-> m]
TextA == TextShape(<<"a">>)
Blank == TextShape(<<" ", "\t">>)
Dirty == TextShape(<<" ", "a", BEL, " ", "a", "\n">>)

\* A slide of m shapes, all a except the p-th, which is b
SlideOf(m, a, p, b) == [j \in 1..m |-> IF j = p THEN b ELSE a]
\* A document of n slides, all d except the s-th, which is k
DocOf(n, d, s, k) == [i \in 1..n |-> IF i = s THEN k ELSE d]

ShapeCounts ==
    {0, 1, 2}
        \cup (MAX_SHAPES_PER_SLIDE - 1 .. MAX_SHAPES_PER_SLIDE + ShapeOvershoot)
SlideCounts == {0, 1, 2} \cup (MAX_SLIDES - 1 .. MAX_SLIDES + SlideOvershoot)

SmallSlides == {<<>>, <<TextA>>, <<Picture, Blank>>}
BigSlides ==
    {SlideOf(m, a, p, b) :
        m \in ShapeCounts, a \in {Picture, TextA},
        p \in {1, MAX_SHAPES_PER_SLIDE, MAX_SHAPES_PER_SLIDE + 1},
        b \in {Dirty, Broken(<<"e">>), Broken(<<"/", "e">>)}}
Docs ==
    {DocOf(n, d, s, k) :
        n \in SlideCounts, d \in SmallSlides,
        s \in {1, MAX_SLIDES, MAX_SLIDES + 1}, k \in BigSlides}

\* What Presentation() makes of the bytes
Parsed(slides) == [ok |-> TRUE, msg |-> <<>>, slides |-> slides]
ParseFails(m) == [ok |-> FALSE, msg |-> m, slides |-> <<>>]

\* The bytes of an upload
ZipEntries == {"[Content_Types].xml", "ppt/presentation.xml", "ppt/slides/slide1.xml"}
NotZip == [zip |-> "bad", entries |-> {}, parse |-> ParseFails(<<"/", "e">>)]
Unreadable == [zip |-> "error", entries |-> {}, parse |-> ParseFails(<<"e">>)]
Zip(entries, parse) == [zip |-> "ok", entries |-> entries, parse |-> parse]

Blob(name, size, bytes) == [name |-> name, size |-> size, bytes |-> bytes]

Envs ==
    [fail : {"create", "write"}, msg : Messages, unlink_fails : BOOLEAN]
        \cup [fail : {"none"}, msg : {<<>>}, unlink_fails : BOOLEAN]

-----------------------------------------------------------------------------
(* Specification of validate_file_basic as a function *)

ValidateSizes == {0, MIN_FILE_SIZE - 1, MIN_FILE_SIZE, MAX_FILE_SIZE, MAX_FILE_SIZE + 1}
ValidateBytes ==
    {NotZip, Unreadable}
        \cup {Zip(es, ParseFails(<<"e">>)) : es \in SUBSET ZipEntries}
ValidateBlobs ==
    {Blob(n, sz, b) : n \in Names, sz \in ValidateSizes, b \in ValidateBytes}

Idle ==
    /\ security_errors = <<>>
    /\ extraction = <<>>
    /\ extracted_from = <<>>
    /\ env = NoEnv
    /\ tempfiles = {}
    /\ created = {}
    /\ ncalls = 0
    /\ view = "none"
    /\ download_name = <<>>
    /\ summary_offered = FALSE

InitValidate ==
    /\ uploaded_file \in {<<f>> : f \in ValidateBlobs}
    /\ pc = "start"
    /\ Idle

ValidateReturn(v) ==
    /\ security_errors' = v.errors
    /\ pc' = IF v.exc = "none" THEN "returned" ELSE "raised"

ValidateCall ==
    /\ pc = "start"
    /\ ValidateReturn(validate_file_basic(uploaded_file[1]))
    /\ UNCHANGED <<uploaded_file, extraction, extracted_from, env, tempfiles,
                   created, ncalls, view, download_name, summary_offered>>

NextValidate == ValidateCall

SpecValidate == InitValidate /\ [][NextValidate]_vars

-----------------------------------------------------------------------------
(* Specification of safe_text_extraction as a function *)

GoodZip(parse) == Zip({"[Content_Types].xml", "ppt/presentation.xml"}, parse)
SomeName == <<"a">> \o DotPptx
SomeSize == 2 * MIN_FILE_SIZE

ExtractInputs ==
    {<<Blob(SomeName, SomeSize, GoodZip(Parsed(d))), NoEnv>> : d \in Docs}
    \cup {<<Blob(SomeName, SomeSize, GoodZip(ParseFails(m))), e>> :
        m \in Messages, e \in {x \in Envs : x.fail = "none"}}
    \cup {<<Blob(SomeName, SomeSize, GoodZip(Parsed(<<<<TextA>>>>))), e>> :
        e \in Envs}

InitExtract ==
    /\ \E in \in ExtractInputs :
          /\ uploaded_file = <<in[1]>>
          /\ env = in[2]
    /\ pc = "start"
    /\ security_errors = <<>>
    /\ extraction = <<>>
    /\ extracted_from = <<>>
    /\ tempfiles = {}
    /\ created = {}
    /\ ncalls = 0
    /\ view = "none"
    /\ download_name = <<>>
    /\ summary_offered = FALSE

ExtractReturn(r) ==
    /\ extraction' = <<r.result>>
    /\ tempfiles' = r.disk
    /\ created' = r.created

ExtractCall ==
    /\ pc = "start"
    /\ ExtractReturn(
          safe_text_extraction(uploaded_file[1], env, tempfiles, ncalls + 1))
    /\ extracted_from' = uploaded_file
    /\ ncalls' = ncalls + 1
    /\ pc' = "returned"
    /\ UNCHANGED <<uploaded_file, security_errors, env, view, download_name,
                   summary_offered>>

NextExtract == ExtractCall

SpecExtract == InitExtract /\ [][NextExtract]_vars

-----------------------------------------------------------------------------
(* Specification of the request pipeline *)

PipelineSizes == {MIN_FILE_SIZE - 1, MIN_FILE_SIZE}
PipelineBytes ==
    {NotZip,
     Zip({"[Content_Types].xml"}, ParseFails(<<"e">>)),
     GoodZip(ParseFails(<<"/", "e">>)),
     GoodZip(Parsed(<<>>)),
     GoodZip(Parsed(<<<<Picture, Blank>>>>)),
     GoodZip(Parsed(<<<<TextA>>, <<>>>>)),
     GoodZip(Parsed(<<<<Broken(<<"e">>)>>>>))}
PipelineNames ==
    {Flatten(ps) :
        ps \in SeqsUpTo({<<"a">>, DotPptx, DotPPTX, <<"<">>}, 1, MaxNameParts)}
PipelineBlobs ==
    {Blob(n, sz, b) :
        n \in PipelineNames, sz \in PipelineSizes, b \in PipelineBytes}
PipelineEnvs ==
    {e \in Envs : e.msg \in {<<>>, <<"e">>}}

Init ==
    /\ uploaded_file = <<>>
    /\ pc = "script"
    /\ Idle

\* The user picks a file in the uploader.  (Picking a file while another
\* one is loaded gives the script the same inputs as removing the old one
\* first, so only that order is listed.)
UploadFile ==
    /\ uploaded_file = <<>>
    /\ \E f \in PipelineBlobs : ScriptRun(<<f>>, FALSE, NoEnv)

\* The user presses "Extract Text Securely", which is shown once the file
\* passed validation
ClickExtract ==
    /\ view \in {"ready", "error", "success", "no_text"}
    /\ ncalls < MaxCalls
    /\ \E e \in PipelineEnvs : ScriptRun(uploaded_file, TRUE, e)

\* The user presses a download button or otherwise triggers a rerun
OtherInteraction ==
    /\ view # "none"
    /\ ScriptRun(uploaded_file, FALSE, NoEnv)

\* The user removes the file from the uploader
ClearUpload ==
    /\ uploaded_file # <<>>
    /\ ScriptRun(<<>>, FALSE, NoEnv)

Next == UploadFile \/ ClickExtract \/ OtherInteraction \/ ClearUpload

Spec == Init /\ [][Next]_vars

-----------------------------------------------------------------------------
(* Properties *)

Range(s) == {s[i] : i \in DOMAIN s}
Count(text, tok) == Cardinality({i \in DOMAIN text : text[i] = tok})
Concat(parts) == Join(parts, <<>>)

TheFile == uploaded_file[1]
TheSlides == uploaded_file[1].bytes.parse.slides
TheResult == extraction[1]

\* C1: whenever safe_text_extraction has returned, no temporary file that
\* the call created is still on disk.  (Stated for the calls in which
\* os.unlink itself does not fail: the claim fails even for those.)
C1_TempFileReleased ==
    (pc = "returned" /\ ~env.unlink_fails) => created \cap tempfiles = {}

\* C2: an extraction is only ever run on the blob the same script run
\* validated, and validate_file_basic returned the empty list for it.
C2_ExtractionOnlyAfterValidation ==
    extracted_from # <<>> =>
        /\ extracted_from = uploaded_file
        /\ security_errors = <<>>
        /\ validate_file_basic(extracted_from[1]).errors = <<>>

C2_Witness ==
    /\ extracted_from # <<>>
    /\ view = "success"

\* The five conditions of validate_file_basic, stated on the blob alone
HasPptxExtension(name) ==
    /\ Len(name) > Len(DotPptx)
    /\ Lower(SubSeq(name, Len(name) - Len(DotPptx) + 1, Len(name))) = DotPptx
    /\ \E i \in 1..(Len(name) - Len(DotPptx)) :
          /\ name[i] \notin {".", "/"}
          /\ \A j \in i..(Len(name) - Len(DotPptx)) : name[j] # "/"

StructureReason(f) ==
    CASE f.bytes.zip = "bad" -> {ErrCorrupted}
      [] f.bytes.zip = "error" -> {ErrUnable}
      [] Range(required_files) \subseteq f.bytes.entries -> {}
      [] OTHER -> {ErrNotPptx}

ExpectedReasons(f) ==
    (IF f.size > MAX_FILE_SIZE THEN {ErrTooLarge} ELSE {})
    \cup (IF HasPptxExtension(f.name) THEN {} ELSE {ErrExtension})
    \cup StructureReason(f)
    \cup (IF \E c \in dangerous_chars : Contains(f.name, c)
          THEN {ErrFilename} ELSE {})
    \cup (IF f.size < MIN_FILE_SIZE THEN {ErrTooSmall} ELSE {})

\* C3: validate_file_basic returns, once each, the reason of every check
\* the blob violates and nothing else, whatever the other checks found; an
\* oversized blob always gets the size-limit reason; the list is empty
\* exactly when no check is violated.
C3_AllChecksReported ==
    pc = "returned" =>
        /\ Range(security_errors) = ExpectedReasons(TheFile)
        /\ Len(security_errors) = Cardinality(ExpectedReasons(TheFile))
        /\ TheFile.size > MAX_FILE_SIZE => ErrTooLarge \in Range(security_errors)
        /\ security_errors = <<>> <=> ExpectedReasons(TheFile) = {}

C3_Witness ==
    /\ pc = "returned"
    /\ TheFile.size > MAX_FILE_SIZE
    /\ Len(security_errors) = 4

\* C4: no exception leaves validate_file_basic; bytes that are no zip
\* archive give the "corrupted" reason, an archive lacking a required
\* entry gives the "valid PPTX format" reason, and any other exception of
\* the structure check gives the "Unable to validate" reason.
C4_StructureFailuresBecomeReasons ==
    /\ pc # "raised"
    /\ pc = "returned" =>
          /\ TheFile.bytes.zip = "bad" => ErrCorrupted \in Range(security_errors)
          /\ TheFile.bytes.zip = "error" => ErrUnable \in Range(security_errors)
          /\ (/\ TheFile.bytes.zip = "ok"
              /\ ~(Range(required_files) \subseteq TheFile.bytes.entries))
                => ErrNotPptx \in Range(security_errors)

C4_Witness ==
    /\ pc = "returned"
    /\ TheFile.bytes.zip = "error"
    /\ ErrUnable \in Range(security_errors)

\* C5: an extraction without error of n slides returns
\* slide_count = min(n, MAX_SLIDES) and as many slide headers; for
\* n > MAX_SLIDES the text is the text of the first MAX_SLIDES slides
\* followed by the one truncation marker; for n <= MAX_SLIDES there is no
\* truncation marker.
C5Holds(slides, res) ==
    /\ res.slide_count = Min(Len(slides), MAX_SLIDES)
    /\ Count(res.text, "--- Slide ") = res.slide_count
    /\ Count(res.text, SlidesMarker) = IF Len(slides) > MAX_SLIDES THEN 1 ELSE 0
    /\ Len(slides) > MAX_SLIDES =>
          res.text = WalkSlides(SubSeq(slides, 1, MAX_SLIDES)).value.text
                         \o <<NL>> \o <<NL, SlidesMarker, NL>>

C5_SlideCap ==
    (pc = "returned" /\ TheResult.error.none) => C5Holds(TheSlides, TheResult)

C5_Witness ==
    /\ pc = "returned"
    /\ TheResult.error.none
    /\ Len(TheSlides) > MAX_SLIDES
    /\ TheResult.slide_count = MAX_SLIDES

\* What one shape contributes, and the text of slide number j, stated on
\* the document
ShapeText(shape) ==
    IF shape.kind = "text" /\ Strip(shape.text) # <<>>
    THEN Sanitize(Slice(shape.text, 0, MAX_TEXT_PER_SLIDE)) \o <<NL>>
    ELSE <<>>

ExpectedSlideText(slide, j) ==
    SlideHeader(j)
        \o Concat([k \in 1..Min(Len(slide), MAX_SHAPES_PER_SLIDE) |->
                       ShapeText(slide[k])])
        \o (IF Len(slide) > MAX_SHAPES_PER_SLIDE
            THEN <<ShapesMarker, NL>> ELSE <<>>)

ExpectedText(slides) ==
    Join([j \in 1..Min(Len(slides), MAX_SLIDES) |->
              ExpectedSlideText(slides[j], j)]
            \o (IF Len(slides) > MAX_SLIDES
                THEN <<(<<NL, SlidesMarker, NL>>)>> ELSE <<>>),
         <<NL>>)

\* C6: in an extraction without error every processed slide contributes
\* its header and the text of its first MAX_SHAPES_PER_SLIDE shapes at
\* most, followed by the too-many-shapes marker exactly when it has more
\* shapes than that; the slides after such a slide are processed and
\* counted all the same.
C6_ShapeCap ==
    (pc = "returned" /\ TheResult.error.none) =>
        /\ TheResult.text = ExpectedText(TheSlides)
        /\ TheResult.slide_count = Min(Len(TheSlides), MAX_SLIDES)

C6_Witness ==
    /\ pc = "returned"
    /\ TheResult.error.none
    /\ \E j \in DOMAIN TheSlides :
          /\ Len(TheSlides[j]) > MAX_SHAPES_PER_SLIDE
          /\ j < TheResult.slide_count
    /\ ShapesMarker \in Range(TheResult.text)

\* The message of the exception the try block of the last call raised
UnderlyingMessage == TryBody(TheFile, env, {}, 1).out.msg

HasSeparator(m) == Contains(m, <<"/">>) \/ Contains(m, <<"\\">>)

\* C7 as stated: the generic message exactly when the underlying message
\* has a path separator or the substring "temp", else "Error: " and the
\* first 100 characters; no returned error has a separator or "temp".
C7_Original ==
    (pc = "returned" /\ ~TheResult.error.none) =>
        /\ IF HasSeparator(UnderlyingMessage) \/ Contains(UnderlyingMessage, Temp)
           THEN TheResult.error.msg = SecurityError
           ELSE TheResult.error.msg =
                    ErrorPrefix \o Slice(UnderlyingMessage, 0, ERROR_MSG_LIMIT)
        /\ ~HasSeparator(TheResult.error.msg)
        /\ ~Contains(TheResult.error.msg, Temp)

\* C7 (amended): the generic message exactly when the underlying message
\* has a path separator or "temp" in any letter case, else "Error: " and
\* the first 100 characters; no returned error has a separator or "temp"
\* in any letter case.
C7_ErrorSanitized ==
    (pc = "returned" /\ ~TheResult.error.none) =>
        /\ IF HasSeparator(UnderlyingMessage)
              \/ Contains(Lower(UnderlyingMessage), Temp)
           THEN TheResult.error.msg = SecurityError
           ELSE TheResult.error.msg =
                    ErrorPrefix \o Slice(UnderlyingMessage, 0, ERROR_MSG_LIMIT)
        /\ ~HasSeparator(TheResult.error.msg)
        /\ ~Contains(Lower(TheResult.error.msg), Temp)

C7_Witness ==
    /\ pc = "returned"
    /\ ~TheResult.error.none
    /\ ~HasSeparator(UnderlyingMessage)
    /\ ~Contains(UnderlyingMessage, Temp)
    /\ Contains(Lower(UnderlyingMessage), Temp)
    /\ TheResult.error.msg = SecurityError

NoExtractableText(slides) ==
    \A j \in DOMAIN slides : \A k \in DOMAIN slides[j] :
        ~(slides[j][k].kind = "text" /\ Strip(slides[j][k].text) # <<>>)

\* C8: a successful extraction of a document without extractable text
\* (no slides, or slides whose shapes carry none) is rendered as "no text
\* found", and "no text found" is never rendered for a result with an
\* error.
C8_Original ==
    view \in {"error", "success", "no_text"} =>
        /\ (/\ TheResult.error.none
            /\ NoExtractableText(TheSlides)) => view = "no_text"
        /\ view = "no_text" => TheResult.error.none

EndsWith(s, suffix) ==
    /\ Len(s) >= Len(suffix)
    /\ SubSeq(s, Len(s) - Len(suffix) + 1, Len(s)) = suffix

\* C9: the full-text download is named "extracted_", the file name
\* without its trailing ".pptx", ".txt".  (Stated for the names that end
\* in a lower-case ".pptx", where "the suffix" is beyond doubt.)
C9_Original ==
    (view = "success" /\ EndsWith(TheFile.name, DotPptx)) =>
        download_name =
            <<"e", "x", "t", "r", "a", "c", "t", "e", "d", "_">>
                \o SubSeq(TheFile.name, 1, Len(TheFile.name) - Len(DotPptx))
                \o <<".", "t", "x", "t">>

\* Whether the call meets an exception: in the operating system, in
\* Presentation(), or at a shape the walk reads
FailureRaised(f, e) ==
    \/ e.fail # "none"
    \/ ~f.bytes.parse.ok
    \/ \E j \in 1..Min(Len(f.bytes.parse.slides), MAX_SLIDES) :
          \E k \in 1..Min(Len(f.bytes.parse.slides[j]), MAX_SHAPES_PER_SLIDE) :
              f.bytes.parse.slides[j][k].kind = "broken"

\* C10: a returned triple has no error, or has an error with empty text
\* and slide_count 0; and a call that met an exception anywhere returns
\* an error, hence nothing of what it had accumulated.
C10_ErrorExcludesContent ==
    pc = "returned" =>
        /\ \/ TheResult.error.none
           \/ /\ Truthy(TheResult.error)
              /\ TheResult.text = <<>>
              /\ TheResult.slide_count = 0
        /\ FailureRaised(TheFile, env) => ~TheResult.error.none

C10_Witness ==
    /\ pc = "returned"
    /\ ~TheResult.error.none
    /\ env.fail = "none"
    /\ TheFile.bytes.parse.ok
    /\ Len(TheSlides) >= 2
    /\ \A k \in DOMAIN TheSlides[1] : TheSlides[1][k].kind # "broken"

====
